---- MODULE Spec2Model ----
(***************************************************************************)
(* Dynamic ranking engine of the referral backend: the User store, the     *)
(* ShareEvent ledger, the rank computations of ranking_service.py, the     *)
(* point awarding of share_service.py, registration and promotion of       *)
(* user_service.py and the page-keyed leaderboard cache.                   *)
(***************************************************************************)
EXTENDS Integers, Sequences, FiniteSets, Bags, TLC

\* ---------------------------------------------------------------- bounds
MaxUsers == 2          \* rows of the users table
MaxShares == 3         \* rows of the share_events table
MaxMembers == 3        \* rows of the users table in SpecMembers
MaxMemberShares == 3   \* rows of the share_events table in SpecMembers
MaxRegistered == 4     \* rows of the users table in SpecRegister
MaxCacheUsers == 2     \* rows of the users table in SpecCache
MaxCacheShares == 1    \* rows of the share_events table in SpecCache
MaxPage == 2           \* page numbers requested from the leaderboard
PageSizes == {1, 2}    \* limit values requested from the leaderboard
MaxRequests == 2       \* share requests in flight at the same time
MaxHealUsers == 2      \* rows of the users table in SpecHeal
MaxHealShares == 2     \* rows of the share_events table in SpecHeal

\* ------------------------------------------------------- program constants
NULL == -1             \* a NULL column / Python None in an integer position

Platforms == {"facebook", "twitter", "linkedin", "instagram"}

PLATFORM_POINTS_linkedin_as_facebook ==
    [twitter |-> 1, instagram |-> 2, linkedin |-> 3, facebook |-> 5]

PLATFORM_POINTS ==
    [twitter |-> 1, instagram |-> 2, linkedin |-> 5, facebook |-> 3]

VARIABLES
    users,          \* the users table, indexed by the autoincrement id
    share_events,   \* the share_events table, a bag of rows
    cache,          \* diskcache entries "leaderboard:<page>:<limit>"
    requests,       \* share requests in flight, each with its own session
    ret             \* what the last finished call returned to its caller

vars == <<users, share_events, cache, requests, ret>>

\* ------------------------------------------------------------ Python values
\* truthiness of an Optional[int]: None and 0 are falsy
Truthy(x) == x # NULL /\ x # 0

\* the Python expression `x or d`
OrElse(x, d) == IF Truthy(x) THEN x ELSE d

\* ---------------------------------------------------------------- the store
UserIds(us) == 1..Len(us)

NonAdminIds(us) == {i \in UserIds(us) : ~us[i].is_admin}

NewUser(is_admin, created_at) ==
    [is_admin |-> is_admin, total_points |-> 0, shares_count |-> 0,
     default_rank |-> NULL, current_rank |-> NULL, created_at |-> created_at]

ShareEvent(user_id, platform, points) ==
    [user_id |-> user_id, platform |-> platform, points_earned |-> points]

\* datetime.utcnow() of the next call, dt clock units after the last one
UtcNow(us, dt) == IF us = <<>> THEN dt ELSE us[Len(us)].created_at + dt

\* ------------------------------------------------------------------- cache
get_leaderboard_cache(c, page, limit) ==
    IF <<page, limit>> \in DOMAIN c THEN c[<<page, limit>>] ELSE <<>>

set_leaderboard_cache(c, data, page, limit) ==
    [k \in (DOMAIN c) \cup {<<page, limit>>} |->
        IF k = <<page, limit>> THEN data ELSE c[k]]

invalidate_first_page_only(c) ==
    [k \in {q \in DOMAIN c : q[1] # 1} |-> c[k]]

invalidate_leaderboard_cache(c) ==
    [k \in {} |-> <<>>]

\* ------------------------------------------------------- ORDER BY and ranks
\* row a sorts strictly before row b under
\* ORDER BY total_points DESC, created_at ASC
Ahead_lowest_points_first(us, a, b) ==
    \/ us[a].total_points < us[b].total_points
    \/ /\ us[a].total_points = us[b].total_points
       /\ us[a].created_at < us[b].created_at

Ahead_newest_first(us, a, b) ==
    \/ us[a].total_points > us[b].total_points
    \/ /\ us[a].total_points = us[b].total_points
       /\ us[a].created_at > us[b].created_at

Ahead(us, a, b) ==
    \/ us[a].total_points > us[b].total_points
    \/ /\ us[a].total_points = us[b].total_points
       /\ us[a].created_at < us[b].created_at

\* every row order the ORDER BY may produce over the rows S; rows that agree
\* on both sort keys come back in an order SQL leaves open
RECURSIVE OrdersOf(_, _)
OrdersOf(us, S) ==
    IF S = {} THEN {<<>>}
    ELSE UNION {{<<m>> \o t : t \in OrdersOf(us, S \ {m})} :
                    m \in {x \in S : \A y \in S : ~Ahead(us, y, x)}}

\* ... WHERE is_admin = FALSE ORDER BY total_points DESC, created_at ASC
SortedOrders(us) == OrdersOf(us, NonAdminIds(us))

Position_from_last(s, u) == Len(s) + 1 - (CHOOSE k \in DOMAIN s : s[k] = u)

Position_zero_based(s, u) == (CHOOSE k \in DOMAIN s : s[k] = u) - 1

\* ROW_NUMBER() of row u, and its index under enumerate(users, 1)
Position(s, u) == CHOOSE k \in DOMAIN s : s[k] = u

\* ----------------------------------------------------------- ranking engine
assign_default_rank_counting_admins(us, user_id) ==
    LET total_users == Len(us)
    IN  IF user_id \in UserIds(us)
        THEN [us EXCEPT ![user_id].default_rank = total_users,
                        ![user_id].current_rank = total_users]
        ELSE us

\* the users table after assign_default_rank(db, user_id)
assign_default_rank(us, user_id) ==
    LET total_users == Cardinality(NonAdminIds(us))
    IN  IF user_id \in UserIds(us)
        THEN [us EXCEPT ![user_id].default_rank = total_users,
                        ![user_id].current_rank = total_users]
        ELSE us

assign_default_rank_result_one_without_user(us, user_id) ==
    IF user_id \in UserIds(us) THEN Cardinality(NonAdminIds(us)) ELSE 1

\* the value assign_default_rank(db, user_id) returns when the store raises
\* nothing: default_rank (line 50) or total_users (line 52), the same count
assign_default_rank_result(us, user_id) == Cardinality(NonAdminIds(us))

calculate_dynamic_rank_with_admins(us, user_id) ==
    IF user_id \notin UserIds(us) THEN {1}
    ELSE IF us[user_id].total_points = 0
         THEN {OrElse(us[user_id].default_rank, 1)}
    ELSE IF us[user_id].is_admin
         THEN {OrElse(us[user_id].default_rank, 1)}
    ELSE {Position(s, user_id) : s \in OrdersOf(us, UserIds(us))}

calculate_dynamic_rank_no_zero_rule(us, user_id) ==
    IF user_id \notin UserIds(us) THEN {1}
    ELSE IF us[user_id].is_admin THEN {OrElse(us[user_id].default_rank, 1)}
    ELSE {Position(s, user_id) : s \in SortedOrders(us)}

\* the values calculate_dynamic_rank(db, user_id) may return
calculate_dynamic_rank(us, user_id) ==
    IF user_id \notin UserIds(us) THEN {1}
    ELSE IF us[user_id].total_points = 0
         THEN {OrElse(us[user_id].default_rank, 1)}
    ELSE IF us[user_id].is_admin
         THEN {OrElse(us[user_id].default_rank, 1)}
    ELSE {Position(s, user_id) : s \in SortedOrders(us)}

\* the users table after the loop of update_all_ranks over the row order s
RanksFromOrder_renumbers_default(us, s) ==
    [i \in UserIds(us) |->
        IF us[i].is_admin THEN us[i]
        ELSE [us[i] EXCEPT !.current_rank = Position(s, i),
                           !.default_rank = Position(s, i)]]

RanksFromOrder_keeps_assigned(us, s) ==
    [i \in UserIds(us) |->
        IF us[i].is_admin \/ us[i].current_rank # NULL THEN us[i]
        ELSE [us[i] EXCEPT !.current_rank = Position(s, i)]]

RanksFromOrder_no_zero_rule(us, s) ==
    [i \in UserIds(us) |->
        IF us[i].is_admin THEN us[i]
        ELSE [us[i] EXCEPT !.current_rank = Position(s, i)]]

RanksFromOrder(us, s) ==
    [i \in UserIds(us) |->
        IF us[i].is_admin THEN us[i]
        ELSE IF us[i].total_points = 0
             THEN [us[i] EXCEPT !.current_rank =
                                    OrElse(us[i].default_rank, Position(s, i))]
             ELSE [us[i] EXCEPT !.current_rank = Position(s, i)]]

\* ------------------------------------------------------------ share ledger
already_shared_never(evs, user_id, platform) == FALSE

already_shared(evs, user_id, platform) ==
    \E e \in BagToSet(evs) : e.user_id = user_id /\ e.platform = platform

\* user.total_points += points; user.shares_count += 1
award(us, user_id, points) ==
    [us EXCEPT ![user_id].total_points = @ + points,
               ![user_id].shares_count = @ + 1]

\* ------------------------------------------------------------- leaderboard
Min(a, b) == IF a < b THEN a ELSE b

LeaderboardRow(us, u, actual_rank) ==
    [rank |-> actual_rank,
     user_id |-> u,
     points |-> us[u].total_points,
     shares_count |-> us[u].shares_count,
     default_rank |-> us[u].default_rank,
     rank_improvement |->
        IF Truthy(us[u].default_rank) /\ Truthy(us[u].current_rank)
        THEN us[u].default_rank - us[u].current_rank
        ELSE IF Truthy(us[u].default_rank)
             THEN us[u].default_rank - actual_rank
             ELSE 0]

\* the page get_leaderboard builds from the users table over the row order s
LeaderboardPage(us, s, page, limit) ==
    LET offset == (page - 1) * limit
        n == IF Len(s) > offset THEN Min(limit, Len(s) - offset) ELSE 0
    IN  [idx \in 1..n |-> LeaderboardRow(us, s[offset + idx], idx + offset)]

\* ----------------------------------------------------------------- returns
Return(op, status, user_id, share, points, rank, rows) ==
    [op |-> op, status |-> status, user_id |-> user_id, share |-> share,
     points |-> points, rank |-> rank, rows |-> rows]

IdleRequest ==
    [pc |-> "idle", user_id |-> NULL, platform |-> "twitter",
     total_points |-> 0, shares_count |-> 0]

Init ==
    /\ users = <<>>
    /\ share_events = EmptyBag
    /\ cache = [k \in {} |-> <<>>]
    /\ requests = [r \in 1..MaxRequests |-> IdleRequest]
    /\ ret = Return("none", 200, NULL, FALSE, 0, NULL, <<>>)

\* ---------------------------------------------------------------- actions
\* user_service.create_user, the email being a new one
create_user(is_admin, dt) ==
    LET user == NewUser(is_admin, UtcNow(users, dt))
        added == Append(users, user)
        user_id == Len(added)
    IN  /\ users' = IF ~is_admin THEN assign_default_rank(added, user_id)
                    ELSE added
        /\ ret' = Return("create_user", 200, user_id, FALSE, 0, NULL, <<>>)
        /\ UNCHANGED <<share_events, cache, requests>>

\* registrations side by side: each request runs create_user in a database
\* session of its own and commits twice
\* lines 29-38 of create_user: the row of a non-admin user is inserted and
\* committed, its rank columns still NULL
create_user_commit(dt) ==
    /\ users' = Append(users, NewUser(FALSE, UtcNow(users, dt)))
    /\ UNCHANGED <<share_events, cache, requests, ret>>

\* lines 41-46 of create_user: assign_default_rank counts the non-admin rows
\* committed so far and writes the ranks of the request's own row
create_user_assign(user_id) ==
    /\ user_id \in NonAdminIds(users)
    /\ users[user_id].default_rank = NULL
    /\ users' = assign_default_rank(users, user_id)
    /\ ret' = Return("create_user", 200, user_id, FALSE, 0, NULL, <<>>)
    /\ UNCHANGED <<share_events, cache, requests>>

\* ranking_service.update_user_rank called on its own
update_user_rank(user_id) ==
    \E new_rank \in calculate_dynamic_rank(users, user_id) :
        /\ IF user_id \in UserIds(users)
           THEN /\ users' = [users EXCEPT ![user_id].current_rank = new_rank]
                /\ cache' = invalidate_leaderboard_cache(cache)
           ELSE UNCHANGED <<users, cache>>
        /\ ret' = Return("update_user_rank", 200, NULL, FALSE, 0,
                         new_rank, <<>>)
        /\ UNCHANGED <<share_events, requests>>

\* ranking_service.update_all_ranks
update_all_ranks ==
    \E s \in SortedOrders(users) :
        /\ users' = RanksFromOrder(users, s)
        /\ cache' = invalidate_leaderboard_cache(cache)
        /\ ret' = Return("update_all_ranks", 200, NULL, FALSE, 0, NULL, <<>>)
        /\ UNCHANGED <<share_events, requests>>

\* share_service.log_share_event run from its first to its last statement
log_share_event(user_id, platform) ==
    IF user_id \notin UserIds(users)
    THEN /\ ret' = Return("log_share_event", 404, user_id, FALSE, 0, NULL, <<>>)
         /\ UNCHANGED <<users, share_events, cache, requests>>
    ELSE IF already_shared(share_events, user_id, platform)
    THEN /\ ret' = Return("log_share_event", 200, user_id, FALSE, 0, NULL, <<>>)
         /\ UNCHANGED <<users, share_events, cache, requests>>
    ELSE LET points == PLATFORM_POINTS[platform]
             awarded == award(users, user_id, points)
         IN  \E new_rank \in calculate_dynamic_rank(awarded, user_id) :
                /\ users' = [awarded EXCEPT ![user_id].current_rank = new_rank]
                /\ share_events' = share_events (+)
                        SetToBag({ShareEvent(user_id, platform, points)})
                /\ cache' = invalidate_leaderboard_cache(
                                invalidate_leaderboard_cache(cache))
                /\ ret' = Return("log_share_event", 200, user_id, TRUE, points,
                                 new_rank, <<>>)
                /\ UNCHANGED requests

\* share_service.log_share_event when a statement of its try block (lines
\* 41-58) raises; at names the statement:
\*   "commit"   line 46, nothing of the transaction is stored
\*   "refresh"  line 47 or 48, after the commit of line 46
\*   "rank"     inside update_user_rank (line 52), which catches the error,
\*              rolls back and returns 1, so that log_share_event goes on
\*   "reload"   line 55, after update_user_rank has committed the rank
\* the except clause (59-61) rolls back what is not yet committed and raises
\* HTTPException 500
log_share_event_fails(user_id, platform, at) ==
    LET points == PLATFORM_POINTS[platform]
        awarded == award(users, user_id, points)
        stored == share_events (+)
                    SetToBag({ShareEvent(user_id, platform, points)})
    IN  /\ user_id \in UserIds(users)
        /\ ~already_shared(share_events, user_id, platform)
        /\ CASE at = "commit" ->
                /\ ret' = Return("log_share_event", 500, user_id, FALSE, 0,
                                 NULL, <<>>)
                /\ UNCHANGED <<users, share_events, cache>>
             [] at = "refresh" ->
                /\ users' = awarded
                /\ share_events' = stored
                /\ ret' = Return("log_share_event", 500, user_id, FALSE, 0,
                                 NULL, <<>>)
                /\ UNCHANGED cache
             [] at = "rank" ->
                /\ users' = awarded
                /\ share_events' = stored
                /\ cache' = invalidate_leaderboard_cache(cache)
                /\ ret' = Return("log_share_event", 200, user_id, TRUE,
                                 points, users[user_id].current_rank, <<>>)
             [] at = "reload" ->
                \E new_rank \in calculate_dynamic_rank(awarded, user_id) :
                    /\ users' = [awarded EXCEPT
                                    ![user_id].current_rank = new_rank]
                    /\ share_events' = stored
                    /\ cache' = invalidate_leaderboard_cache(cache)
                    /\ ret' = Return("log_share_event", 500, user_id, FALSE,
                                     0, NULL, <<>>)
        /\ UNCHANGED requests

\* ranking_service.assign_default_rank(db, user_id) when the row user_id is
\* gone at line 43 (create_user inserted it at user_service.py:38-39 and it
\* was deleted since): lines 37-52, `return total_users`
assign_default_rank_no_user(user_id) ==
    /\ user_id \notin UserIds(users)
    /\ ret' = Return("assign_default_rank", 200, NULL, FALSE, 0,
                     assign_default_rank_result(users, user_id), <<>>)
    /\ users' = assign_default_rank(users, user_id)
    /\ UNCHANGED <<share_events, cache, requests>>

\* lines 203-211 of get_user_rank_info: the values points_to_next_rank may
\* take for a user whose current_rank is above 1; .first() takes any one of
\* the non-admin rows stored at current_rank - 1
Max(a, b) == IF a > b THEN a ELSE b

points_to_next_rank(us, user_id) ==
    LET next_rank_users == {v \in NonAdminIds(us) :
            us[v].current_rank = us[user_id].current_rank - 1}
    IN  IF next_rank_users = {} THEN {0}
        ELSE {Max(0, us[v].total_points - us[user_id].total_points + 1) :
                v \in next_rank_users}

\* ranking_service.get_user_rank_info. In line 205 the conditional expression
\* binds weaker than ==, so the second filter argument is the comparison
\* when current_rank > 1 and the integer 0 otherwise; SQLAlchemy rejects an
\* integer as a WHERE criterion (ArgumentError), the except clause of line
\* 225 catches that and the call returns {"error": ...}
get_user_rank_info(user_id) ==
    /\ IF user_id \notin UserIds(users)
       THEN ret' = Return("get_user_rank_info", 404, user_id, FALSE, 0, NULL,
                          <<>>)
       ELSE IF ~(Truthy(users[user_id].current_rank)
                    /\ users[user_id].current_rank > 1)
       THEN ret' = Return("get_user_rank_info", 500, user_id, FALSE, 0, NULL,
                          <<>>)
       ELSE \E points \in points_to_next_rank(users, user_id) :
                ret' = Return("get_user_rank_info", 200, user_id, FALSE,
                              points, users[user_id].current_rank, <<>>)
    /\ UNCHANGED <<users, share_events, cache, requests>>

\* lines 246-261 of get_rank_changes_after_share: COUNT(*) + 1 over the
\* non-admin rows ahead of the user's new total
new_rank_after_share(us, user_id, points_earned) ==
    LET new_total_points == us[user_id].total_points + points_earned
    IN  1 + Cardinality({v \in NonAdminIds(us) :
                \/ us[v].total_points > new_total_points
                \/ /\ us[v].total_points = new_total_points
                   /\ us[v].created_at < us[user_id].created_at})

\* ranking_service.get_rank_changes_after_share
get_rank_changes_after_share(user_id, points_earned) ==
    /\ IF user_id \notin UserIds(users)
       THEN ret' = Return("get_rank_changes_after_share", 404, user_id,
                          FALSE, 0, NULL, <<>>)
       ELSE ret' = Return("get_rank_changes_after_share", 200, user_id,
                          FALSE, points_earned,
                          new_rank_after_share(users, user_id, points_earned),
                          <<>>)
    /\ UNCHANGED <<users, share_events, cache, requests>>

\* user_service.promote_user_to_admin
promote_user_to_admin(user_id) ==
    IF user_id \notin UserIds(users)
    THEN /\ ret' = Return("promote_user_to_admin", 404, user_id, FALSE, 0,
                          NULL, <<>>)
         /\ UNCHANGED <<users, share_events, cache, requests>>
    ELSE IF users[user_id].is_admin
    THEN /\ ret' = Return("promote_user_to_admin", 400, user_id, FALSE, 0,
                          NULL, <<>>)
         /\ UNCHANGED <<users, share_events, cache, requests>>
    ELSE /\ users' = [users EXCEPT ![user_id].is_admin = TRUE]
         /\ ret' = Return("promote_user_to_admin", 200, user_id, FALSE, 0,
                          NULL, <<>>)
         /\ UNCHANGED <<share_events, cache, requests>>

\* leaderboard_service.get_leaderboard
get_leaderboard(page, limit) ==
    LET cached == get_leaderboard_cache(cache, page, limit)
    IN  IF cached # <<>>
        THEN /\ ret' = Return("get_leaderboard", 200, NULL, FALSE, 0, NULL,
                              cached)
             /\ UNCHANGED <<users, share_events, cache, requests>>
        ELSE \E s \in SortedOrders(users) :
                LET leaderboard == LeaderboardPage(users, s, page, limit)
                IN  /\ cache' = set_leaderboard_cache(cache, leaderboard,
                                                      page, limit)
                    /\ ret' = Return("get_leaderboard", 200, NULL, FALSE, 0,
                                     NULL, leaderboard)
                    /\ UNCHANGED <<users, share_events, requests>>

try_get_leaderboard_cache_raising(c, page, limit, fails) ==
    [status |-> IF fails THEN 500 ELSE 200,
     cached |-> IF fails THEN <<>> ELSE get_leaderboard_cache(c, page, limit)]

\* the cache read of get_leaderboard when the cache may be failing: the
\* error is caught and logged (cache.py 12-14, leaderboard_service.py 16-17)
\* and the call goes on as after a miss
try_get_leaderboard_cache(c, page, limit, fails) ==
    [status |-> 200,
     cached |-> IF fails THEN <<>> ELSE get_leaderboard_cache(c, page, limit)]

\* the cache write of get_leaderboard when the cache may be failing: the
\* error is caught and logged and nothing is stored
try_set_leaderboard_cache(c, leaderboard, page, limit, fails) ==
    IF fails THEN c ELSE set_leaderboard_cache(c, leaderboard, page, limit)

\* leaderboard_service.get_leaderboard while the cache read fails
\* (get_fails) or the cache write fails (set_fails)
get_leaderboard_degraded(page, limit, get_fails, set_fails) ==
    LET got == try_get_leaderboard_cache(cache, page, limit, get_fails)
    IN  IF got.status # 200
        THEN /\ ret' = Return("get_leaderboard", got.status, NULL, FALSE, 0,
                              NULL, <<>>)
             /\ UNCHANGED <<users, share_events, cache, requests>>
        ELSE IF got.cached # <<>>
        THEN /\ ret' = Return("get_leaderboard", 200, NULL, FALSE, 0, NULL,
                              got.cached)
             /\ UNCHANGED <<users, share_events, cache, requests>>
        ELSE \E s \in SortedOrders(users) :
                LET leaderboard == LeaderboardPage(users, s, page, limit)
                IN  /\ cache' = try_set_leaderboard_cache(cache, leaderboard,
                                        page, limit, set_fails)
                    /\ ret' = Return("get_leaderboard", 200, NULL, FALSE, 0,
                                     NULL, leaderboard)
                    /\ UNCHANGED <<users, share_events, requests>>

\* a cache entry reaches its expire time (60 s after it was set)
cache_expire(page, limit) ==
    /\ <<page, limit>> \in DOMAIN cache
    /\ cache' = [k \in DOMAIN cache \ {<<page, limit>>} |-> cache[k]]
    /\ UNCHANGED <<users, share_events, requests, ret>>

\* --------------------------------------------- share requests side by side
\* each request runs log_share_event in a database session of its own; the
\* session reads at its first query and writes at its commit

\* lines 20-34: the two queries, up to the duplicate check
share_begin(r, user_id, platform) ==
    /\ requests[r].pc = "idle"
    /\ IF user_id \notin UserIds(users)
       THEN /\ ret' = Return("log_share_event", 404, user_id, FALSE, 0, NULL,
                             <<>>)
            /\ UNCHANGED requests
       ELSE IF already_shared(share_events, user_id, platform)
       THEN /\ ret' = Return("log_share_event", 200, user_id, FALSE, 0, NULL,
                             <<>>)
            /\ UNCHANGED requests
       ELSE /\ requests' = [requests EXCEPT ![r] =
                    [pc |-> "checked", user_id |-> user_id,
                     platform |-> platform,
                     total_points |-> users[user_id].total_points,
                     shares_count |-> users[user_id].shares_count]]
            /\ UNCHANGED ret
    /\ UNCHANGED <<users, share_events, cache>>

\* lines 33-46: the increments on the loaded row, the insert and the commit;
\* the UPDATE carries the values computed from the row as it was loaded
share_commit(r) ==
    LET q == requests[r]
        points == PLATFORM_POINTS[q.platform]
    IN  /\ q.pc = "checked"
        /\ users' = [users EXCEPT
                ![q.user_id].total_points = q.total_points + points,
                ![q.user_id].shares_count = q.shares_count + 1]
        /\ share_events' = share_events (+)
                SetToBag({ShareEvent(q.user_id, q.platform, points)})
        /\ requests' = [requests EXCEPT ![r].pc = "committed"]
        /\ UNCHANGED <<cache, ret>>

\* lines 47-58: the refreshes, update_user_rank, the invalidation, the return
share_finish(r) ==
    LET q == requests[r]
    IN  /\ q.pc = "committed"
        /\ \E new_rank \in calculate_dynamic_rank(users, q.user_id) :
            /\ users' = [users EXCEPT ![q.user_id].current_rank = new_rank]
            /\ ret' = Return("log_share_event", 200, q.user_id, TRUE,
                             PLATFORM_POINTS[q.platform], new_rank, <<>>)
        /\ cache' = invalidate_leaderboard_cache(
                        invalidate_leaderboard_cache(cache))
        /\ requests' = [requests EXCEPT ![r] = IdleRequest]
        /\ UNCHANGED share_events

\* a get_leaderboard request in a thread of its own: lines 9-44, the cache
\* miss and the query of the users table, the rows built from it
read_begin(r, page, limit) ==
    /\ requests[r].pc = "idle"
    /\ get_leaderboard_cache(cache, page, limit) = <<>>
    /\ \E s \in SortedOrders(users) :
        requests' = [requests EXCEPT ![r] =
            [pc |-> "read", page |-> page, limit |-> limit,
             leaderboard |-> LeaderboardPage(users, s, page, limit)]]
    /\ UNCHANGED <<users, share_events, cache, ret>>

\* lines 46-51: set_leaderboard_cache with the rows read before, the return
read_finish(r) ==
    LET q == requests[r]
    IN  /\ q.pc = "read"
        /\ cache' = set_leaderboard_cache(cache, q.leaderboard, q.page,
                                          q.limit)
        /\ ret' = Return("get_leaderboard", 200, NULL, FALSE, 0, NULL,
                         q.leaderboard)
        /\ requests' = [requests EXCEPT ![r] = IdleRequest]
        /\ UNCHANGED <<users, share_events>>

\* update_all_ranks in a session of its own: lines 153-158, the query that
\* loads the non-admin rows
bulk_begin(r) ==
    /\ requests[r].pc = "idle"
    /\ requests' = [requests EXCEPT ![r] = [pc |-> "bulk", users |-> users]]
    /\ UNCHANGED <<users, share_events, cache, ret>>

\* lines 160-171: the loop over the loaded rows, the commit and the
\* invalidation; the commit issues an UPDATE of current_rank for the rows
\* whose computed rank differs from the one loaded, and for no other row
bulk_commit(r) ==
    LET q == requests[r]
    IN  /\ q.pc = "bulk"
        /\ \E s \in SortedOrders(q.users) :
            LET computed == RanksFromOrder(q.users, s)
            IN  users' = [i \in UserIds(users) |->
                    IF /\ i \in UserIds(q.users)
                       /\ computed[i].current_rank # q.users[i].current_rank
                    THEN [users[i] EXCEPT
                            !.current_rank = computed[i].current_rank]
                    ELSE users[i]]
        /\ cache' = invalidate_leaderboard_cache(cache)
        /\ ret' = Return("update_all_ranks", 200, NULL, FALSE, 0, NULL, <<>>)
        /\ requests' = [requests EXCEPT ![r] = IdleRequest]
        /\ UNCHANGED share_events

InFlight == {r \in 1..MaxRequests : requests[r].pc # "idle"}

\* ----------------------------------------------------------- specifications
CanShare(user_id, platform, max) ==
    \/ user_id \notin UserIds(users)
    \/ already_shared(share_events, user_id, platform)
    \/ BagCardinality(share_events) < max

\* registrations only, and assign_default_rank reaching a deleted row
NextRegister ==
    \/ \E is_admin \in BOOLEAN, dt \in 0..1 :
        /\ Len(users) < MaxRegistered
        /\ (users = <<>> => dt = 1)
        /\ create_user(is_admin, dt)
    \/ assign_default_rank_no_user(Len(users) + 1)

SpecRegister == Init /\ [][NextRegister]_vars

\* the ranking engine and the share ledger, one call at a time
Next ==
    \/ \E is_admin \in BOOLEAN, dt \in 0..1 :
        /\ Len(users) < MaxUsers
        /\ (users = <<>> => dt = 1)
        /\ create_user(is_admin, dt)
    \/ \E user_id \in 1..MaxUsers, platform \in Platforms :
        /\ CanShare(user_id, platform, MaxShares)
        /\ log_share_event(user_id, platform)
    \/ \E user_id \in 1..MaxUsers : update_user_rank(user_id)
    \/ update_all_ranks

Spec == Init /\ [][Next]_vars

\* registrations whose two commits interleave
NextSignups ==
    \/ \E dt \in 0..1 :
        /\ Len(users) < MaxRegistered
        /\ (users = <<>> => dt = 1)
        /\ \/ create_user_commit(dt)
           \/ create_user(TRUE, dt)
    \/ \E user_id \in 1..MaxRegistered : create_user_assign(user_id)

SpecSignups == Init /\ [][NextSignups]_vars

\* the same calls over a store of non-admin users registered at distinct times
NextMembers ==
    \/ /\ Len(users) < MaxMembers
       /\ create_user(FALSE, 1)
    \/ \E user_id \in 1..MaxMembers, platform \in Platforms :
        /\ CanShare(user_id, platform, MaxMemberShares)
        /\ log_share_event(user_id, platform)
    \/ \E user_id \in 1..MaxMembers : update_user_rank(user_id)
    \/ update_all_ranks

SpecMembers == Init /\ [][NextMembers]_vars

\* registrations and shares with leaderboard reads and expiring cache entries
NextCache ==
    \/ \E is_admin \in BOOLEAN :
        /\ Len(users) < MaxCacheUsers
        /\ create_user(is_admin, 1)
    \/ \E user_id \in 1..MaxCacheUsers, platform \in Platforms :
        /\ CanShare(user_id, platform, MaxCacheShares)
        /\ log_share_event(user_id, platform)
    \/ \E page \in 1..MaxPage, limit \in PageSizes :
        get_leaderboard(page, limit)
    \/ \E page \in 1..MaxPage, limit \in PageSizes :
        cache_expire(page, limit)

SpecCache == Init /\ [][NextCache]_vars

\* every ranking call, with reads of the first leaderboard page while the
\* cache works and while it fails
NextReads ==
    \/ \E is_admin \in BOOLEAN :
        /\ Len(users) < MaxCacheUsers
        /\ create_user(is_admin, 1)
    \/ \E user_id \in 1..MaxCacheUsers, platform \in Platforms :
        /\ CanShare(user_id, platform, MaxCacheShares)
        /\ log_share_event(user_id, platform)
    \/ \E user_id \in 1..MaxCacheUsers : update_user_rank(user_id)
    \/ update_all_ranks
    \/ \E limit \in PageSizes : get_leaderboard(1, limit)
    \/ \E limit \in PageSizes, get_fails, set_fails \in BOOLEAN :
        /\ get_fails \/ set_fails
        /\ get_leaderboard_degraded(1, limit, get_fails, set_fails)

SpecReads == Init /\ [][NextReads]_vars

\* registrations and share requests whose steps interleave
NextRequests ==
    \/ \E is_admin \in BOOLEAN :
        /\ Len(users) < MaxUsers
        /\ create_user(is_admin, 1)
    \/ \E r \in 1..MaxRequests, user_id \in 1..MaxUsers,
          platform \in Platforms :
        /\ BagCardinality(share_events) + Cardinality(InFlight) < MaxShares
        /\ share_begin(r, user_id, platform)
    \/ \E r \in 1..MaxRequests : share_commit(r)
    \/ \E r \in 1..MaxRequests : share_finish(r)

SpecRequests == Init /\ [][NextRequests]_vars

\* share requests whose steps interleave with each other and with
\* update_user_rank calls, and update_all_ranks run among them; the requests
\* are for the platforms worth the fewest and the most points
HealPlatforms == {"twitter", "linkedin"}

NextHeal ==
    \/ \E dt \in 0..1 :
        /\ Len(users) < MaxHealUsers
        /\ (users = <<>> => dt = 1)
        /\ create_user(FALSE, dt)
    \/ \E r \in 1..MaxRequests, user_id \in 1..MaxHealUsers,
          platform \in HealPlatforms :
        /\ user_id \in UserIds(users)
        /\ BagCardinality(share_events) + Cardinality(InFlight)
                < MaxHealShares
        /\ share_begin(r, user_id, platform)
    \/ \E r \in 1..MaxRequests : share_commit(r)
    \/ \E r \in 1..MaxRequests : share_finish(r)
    \/ \E user_id \in 1..MaxHealUsers :
        /\ user_id \in UserIds(users)
        /\ update_user_rank(user_id)
    \/ update_all_ranks

SpecHeal == Init /\ [][NextHeal]_vars

\* registrations and shares with leaderboard reads in threads of their own
NextCacheRace ==
    \/ /\ Len(users) < MaxCacheUsers
       /\ create_user(FALSE, 1)
    \/ \E user_id \in 1..MaxCacheUsers, platform \in Platforms :
        /\ CanShare(user_id, platform, MaxCacheShares)
        /\ log_share_event(user_id, platform)
    \/ \E r \in 1..MaxRequests, limit \in PageSizes :
        read_begin(r, 1, limit)
    \/ \E r \in 1..MaxRequests : read_finish(r)
    \/ \E limit \in PageSizes : get_leaderboard(1, limit)

SpecCacheRace == Init /\ [][NextCacheRace]_vars

\* share requests whose steps interleave with update_all_ranks
NextBulkRace ==
    \/ /\ Len(users) < MaxUsers
       /\ create_user(FALSE, 1)
    \/ \E r \in 1..MaxRequests, user_id \in 1..MaxUsers,
          platform \in Platforms :
        /\ user_id \in UserIds(users)
        /\ BagCardinality(share_events)
            + Cardinality({q \in InFlight : requests[q].pc # "bulk"})
                < MaxShares
        /\ share_begin(r, user_id, platform)
    \/ \E r \in 1..MaxRequests : share_commit(r)
    \/ \E r \in 1..MaxRequests : share_finish(r)
    \/ \E r \in 1..MaxRequests : bulk_begin(r)
    \/ \E r \in 1..MaxRequests : bulk_commit(r)

SpecBulkRace == Init /\ [][NextBulkRace]_vars

\* registrations and promotions to admin
NextPromotions ==
    \/ \E is_admin \in BOOLEAN :
        /\ Len(users) < MaxRegistered
        /\ create_user(is_admin, 1)
    \/ \E user_id \in 1..MaxRegistered : promote_user_to_admin(user_id)

SpecPromotions == Init /\ [][NextPromotions]_vars

\* the same with promotions to admin
NextAdmin ==
    \/ Next
    \/ \E user_id \in 1..MaxUsers : promote_user_to_admin(user_id)

SpecAdmin == Init /\ [][NextAdmin]_vars

\* registrations and shares, one call at a time, with no other rank update
NextShares ==
    \/ \E is_admin \in BOOLEAN, dt \in 0..1 :
        /\ Len(users) < MaxUsers
        /\ (users = <<>> => dt = 1)
        /\ create_user(is_admin, dt)
    \/ \E user_id \in 1..MaxUsers, platform \in Platforms :
        /\ CanShare(user_id, platform, MaxShares)
        /\ log_share_event(user_id, platform)

SpecShares == Init /\ [][NextShares]_vars

\* the ranking calls with the two read-only rank queries
NextQueries ==
    \/ Next
    \/ \E user_id \in 1..MaxUsers : get_user_rank_info(user_id)
    \/ \E user_id \in 1..MaxUsers, platform \in Platforms :
        get_rank_changes_after_share(user_id, PLATFORM_POINTS[platform])

SpecQueries == Init /\ [][NextQueries]_vars

\* the ranking calls with failing statements inside log_share_event
ShareFailurePoints == {"commit", "refresh", "rank", "reload"}

NextFaults ==
    \/ Next
    \/ \E user_id \in 1..MaxUsers, platform \in Platforms,
          at \in ShareFailurePoints :
        /\ at # "commit" => BagCardinality(share_events) < MaxShares
        /\ log_share_event_fails(user_id, platform, at)

SpecFaults == Init /\ [][NextFaults]_vars

\* ------------------------------------------------------------------ claims
HasEvent(user_id, platform) ==
    \E e \in BagToSet(share_events) :
        e.user_id = user_id /\ e.platform = platform

TablePoints(platform) ==
    CASE platform = "twitter" -> 1
      [] platform = "instagram" -> 2
      [] platform = "facebook" -> 3
      [] platform = "linkedin" -> 5

Members == {i \in 1..Len(users) : ~users[i].is_admin}

\* C1: after any sequence of create_user calls, the k-th created non-admin
\* user has default_rank k and every user created as admin has none.
DefaultRankAssignment ==
    \A i \in 1..Len(users) :
        IF users[i].is_admin
        THEN users[i].default_rank = NULL
        ELSE users[i].default_rank =
                Cardinality({j \in 1..i : ~users[j].is_admin})

DefaultRankAssignmentWitness ==
    /\ Len(users) >= 4
    /\ ~users[1].is_admin /\ users[2].is_admin
    /\ ~users[3].is_admin /\ ~users[4].is_admin
    /\ users[4].default_rank = 3

\* C2: a non-admin user whose default rank is assigned and who has 0 points
\* has current_rank = default_rank, whatever the other users have done.
ZeroPointInvariance ==
    \A i \in Members :
        (users[i].default_rank # NULL /\ users[i].total_points = 0)
            => users[i].current_rank = users[i].default_rank

ZeroPointInvarianceWitness ==
    /\ ret.op = "update_all_ranks"
    /\ Len(users) >= 2
    /\ ~users[1].is_admin /\ users[1].total_points = 0
    /\ users[1].current_rank = 1
    /\ ~users[2].is_admin /\ users[2].total_points > 0
    /\ users[2].current_rank = 1

\* C3 as stated: right after update_all_ranks, over all pairs of non-admin
\* users, more points means a smaller current_rank and equal points mean the
\* earlier created_at has the smaller current_rank.
TotalOrderAllPairs ==
    ret.op = "update_all_ranks" =>
        \A a, b \in Members :
            /\ users[a].total_points > users[b].total_points
                => users[a].current_rank < users[b].current_rank
            /\ (users[a].total_points = users[b].total_points
                    /\ users[a].created_at < users[b].created_at)
                => users[a].current_rank < users[b].current_rank

\* C3 amended: the same over the pairs of non-admin users that both have
\* more than 0 points.
TotalOrderScoringPairs ==
    ret.op = "update_all_ranks" =>
        \A a, b \in {i \in Members : users[i].total_points > 0} :
            /\ users[a].total_points > users[b].total_points
                => users[a].current_rank < users[b].current_rank
            /\ (users[a].total_points = users[b].total_points
                    /\ users[a].created_at < users[b].created_at)
                => users[a].current_rank < users[b].current_rank

TotalOrderScoringPairsWitness ==
    /\ ret.op = "update_all_ranks"
    /\ \E a, b \in Members :
        /\ users[a].total_points > 0
        /\ users[a].total_points = users[b].total_points
        /\ users[a].created_at < users[b].created_at
        /\ users[a].current_rank = 1 /\ users[b].current_rank = 2

\* C4: a log_share_event call for a platform the user has already shared on
\* returns (no event, the user, 0 points) without an error and leaves
\* total_points, shares_count and the ShareEvents unchanged; the call before
\* it, on a platform not yet shared on, awards more than 0 points.
DuplicateShareIdempotence ==
    [][\A u \in 1..Len(users), p \in Platforms :
        (ret'.user_id = u /\ log_share_event(u, p)) =>
            IF HasEvent(u, p)
            THEN /\ ret'.status = 200 /\ ~ret'.share /\ ret'.points = 0
                 /\ ret'.user_id = u
                 /\ users' = users
                 /\ share_events' = share_events
            ELSE /\ ret'.status = 200 /\ ret'.share /\ ret'.points > 0
                 /\ users'[u].total_points = users[u].total_points + ret'.points
                 /\ HasEvent(u, p)']_vars

DuplicateShareIdempotenceWitness ==
    /\ ret.op = "log_share_event" /\ ret.status = 200
    /\ ~ret.share /\ ret.points = 0
    /\ ret.user_id \in 1..Len(users)
    /\ users[ret.user_id].total_points > 0
    /\ users[ret.user_id].shares_count = 1

\* C5: at most one ShareEvent exists per (user_id, platform), also when two
\* requests for the same user and platform interleave between the duplicate
\* check and the commit.
AtMostOneSharePerPlatform ==
    \A e \in BagToSet(share_events) : CopiesIn(e, share_events) <= 1

\* C6 as stated: default_rank - current_rank >= 0 for every non-admin user
\* who has only gained points since registration. It is stated here over the
\* stores whose users registered at pairwise distinct times, so that a
\* violation never rests on the row order of equal sort keys.
RankImprovementNonNegative ==
    (\A a, b \in 1..Len(users) :
        a # b => users[a].created_at # users[b].created_at)
    => \A i \in Members :
        users[i].default_rank # NULL
            => users[i].default_rank - users[i].current_rank >= 0

\* the users registered after i that outscore i, or tie with i on points and
\* on created_at
Overtakers(i) ==
    {v \in 1..Len(users) :
        /\ v > i
        /\ \/ users[v].total_points > users[i].total_points
           \/ /\ users[v].total_points = users[i].total_points
              /\ users[v].created_at = users[i].created_at}

\* C6 amended: default_rank - current_rank >= -k, where k counts the users
\* registered after the user that hold more points (or the same points and
\* the same created_at); so it is >= 0 while nobody registered later has
\* overtaken the user.
RankImprovementBound ==
    \A i \in Members :
        users[i].default_rank # NULL
            => users[i].default_rank - users[i].current_rank
                    >= 0 - Cardinality(Overtakers(i))

RankImprovementBoundWitness ==
    /\ Len(users) >= 2
    /\ ~users[1].is_admin /\ ~users[2].is_admin
    /\ users[1].total_points > 0
    /\ users[2].total_points > users[1].total_points
    /\ users[1].default_rank = 1 /\ users[1].current_rank = 2
    /\ users[2].default_rank = 2 /\ users[2].current_rank = 1

\* C7: a get_leaderboard call that follows a log_share_event call which
\* awarded points returns, for any (page, limit), rows computed from the
\* users table as the share left it, whatever the cache held before the share.
CacheConsistency ==
    [][\A page \in 1..MaxPage, limit \in PageSizes :
        (/\ ret.op = "log_share_event" /\ ret.points > 0
         /\ get_leaderboard(page, limit))
        => ret'.rows \in {LeaderboardPage(users, s, page, limit) :
                            s \in SortedOrders(users)}]_vars

CacheConsistencyWitness ==
    /\ ret.op = "get_leaderboard"
    /\ Len(ret.rows) = 2
    /\ ret.rows[1].user_id = 2 /\ ret.rows[1].points > 0
    /\ ret.rows[2].user_id = 1 /\ ret.rows[2].points = 0
    /\ DOMAIN cache # {}

\* C8: Alice, Bob and Carol register in that order; Carol shares on linkedin
\* and facebook, then Bob on twitter. The stored ranks are then Carol 1,
\* Bob 2, Alice 1, and a following update_all_ranks keeps them.
ThreeMembers ==
    /\ Len(users) = 3
    /\ \A i \in 1..3 : ~users[i].is_admin /\ users[i].default_rank = i

PointsAre(a, b, c) ==
    /\ users[1].total_points = a
    /\ users[2].total_points = b
    /\ users[3].total_points = c

RanksAre(a, b, c) ==
    /\ users[1].current_rank = a
    /\ users[2].current_rank = b
    /\ users[3].current_rank = c

ThreeUserScenario ==
    [][/\ (/\ ThreeMembers /\ share_events = EmptyBag
           /\ PointsAre(0, 0, 0) /\ RanksAre(1, 2, 3)
           /\ log_share_event(3, "linkedin"))
          => (PointsAre(0, 0, 5) /\ RanksAre(1, 2, 1))'
       /\ (/\ ThreeMembers
           /\ share_events = SetToBag({ShareEvent(3, "linkedin", 5)})
           /\ PointsAre(0, 0, 5) /\ RanksAre(1, 2, 1)
           /\ log_share_event(3, "facebook"))
          => (PointsAre(0, 0, 8) /\ RanksAre(1, 2, 1))'
       /\ (/\ ThreeMembers
           /\ share_events = SetToBag({ShareEvent(3, "linkedin", 5),
                                       ShareEvent(3, "facebook", 3)})
           /\ PointsAre(0, 0, 8) /\ RanksAre(1, 2, 1)
           /\ log_share_event(2, "twitter"))
          => (PointsAre(0, 1, 8) /\ RanksAre(1, 2, 1))'
       /\ (/\ ThreeMembers
           /\ share_events = SetToBag({ShareEvent(3, "linkedin", 5),
                                       ShareEvent(3, "facebook", 3),
                                       ShareEvent(2, "twitter", 1)})
           /\ PointsAre(0, 1, 8) /\ RanksAre(1, 2, 1)
           /\ update_all_ranks)
          => (PointsAre(0, 1, 8) /\ RanksAre(1, 2, 1))']_vars

ThreeUserScenarioWitness ==
    /\ ret.op = "update_all_ranks"
    /\ ThreeMembers
    /\ share_events = SetToBag({ShareEvent(3, "linkedin", 5),
                                ShareEvent(3, "facebook", 3),
                                ShareEvent(2, "twitter", 1)})
    /\ PointsAre(0, 1, 8) /\ RanksAre(1, 2, 1)

\* C9: every ShareEvent carries the table value of its platform, and the
\* first share on a platform adds exactly that value to total_points and 1
\* to shares_count, whatever was shared before.
FixedPlatformPoints ==
    /\ [](\A e \in BagToSet(share_events) :
            e.points_earned = TablePoints(e.platform))
    /\ [][\A u \in 1..Len(users), p \in Platforms :
            (~HasEvent(u, p) /\ ret'.user_id = u /\ log_share_event(u, p)) =>
                /\ users'[u].total_points =
                        users[u].total_points + TablePoints(p)
                /\ users'[u].shares_count = users[u].shares_count + 1
                /\ ret'.points = TablePoints(p)]_vars

FixedPlatformPointsWitness ==
    /\ ret.op = "log_share_event" /\ ret.share /\ ret.points = 1
    /\ users[ret.user_id].total_points = 9
    /\ users[ret.user_id].shares_count = 3
    /\ Len(users) = 3

\* C10: no admin user holds a default_rank or a current_rank, whether created
\* as admin, sharing as admin or promoted to admin.
AdminsHoldNoRank ==
    \A i \in 1..Len(users) :
        users[i].is_admin =>
            (users[i].default_rank = NULL /\ users[i].current_rank = NULL)

\* C11: once a user's default_rank is set, no later call changes it: not a
\* share, a rank update of either kind, another registration or a cache
\* operation; and no call assigns a default rank to a user registered earlier.
DefaultRankWriteOnce ==
    [][\A i \in 1..Len(users) :
        /\ Len(users') >= Len(users)
        /\ users'[i].default_rank = users[i].default_rank]_vars

DefaultRankWriteOnceWitness ==
    /\ ret.op = "update_all_ranks"
    /\ Len(users) >= 2
    /\ ~users[2].is_admin
    /\ users[2].default_rank = 2 /\ users[2].current_rank = 1
    /\ DOMAIN cache = {}

\* C12: every non-admin user with an assigned rank has
\* 1 <= current_rank <= N, N being the number of non-admin users.
RankRange ==
    \A i \in Members :
        users[i].current_rank # NULL
            => (1 <= users[i].current_rank
                /\ users[i].current_rank <= Cardinality(Members))

RankRangeWitness ==
    /\ Len(users) >= 2
    /\ users[1].is_admin /\ users[1].total_points > 0
    /\ ~users[2].is_admin /\ users[2].total_points > 0
    /\ users[2].current_rank = 1
    /\ ret.op = "update_user_rank"

\* C15: when the cache read or the cache write of a get_leaderboard call
\* fails, the call raises nothing and returns the rows of a live computation
\* from the users table.
CacheFailureFallsBack ==
    [][\A limit \in PageSizes, get_fails, set_fails \in BOOLEAN :
        (/\ ret'.op = "get_leaderboard"
         /\ get_fails \/ (set_fails
                           /\ get_leaderboard_cache(cache, 1, limit) = <<>>)
         /\ get_leaderboard_degraded(1, limit, get_fails, set_fails))
        => /\ ret'.status = 200
           /\ \E s \in SortedOrders(users) :
                ret'.rows = LeaderboardPage(users, s, 1, limit)]_vars

CacheFailureFallsBackWitness ==
    /\ ret.op = "get_leaderboard"
    /\ ret.status = 200
    /\ Len(ret.rows) = 2
    /\ DOMAIN cache = {}

\* C13: a user's total_points is 0 at registration and no step lowers it,
\* however the steps of concurrent share requests interleave.
PointsNeverDecrease ==
    /\ [](\A i \in 1..Len(users) : users[i].total_points >= 0)
    /\ [][/\ Len(users') >= Len(users)
          /\ \A i \in 1..Len(users) :
                /\ users'[i].total_points >= users[i].total_points
                /\ Len(users') > Len(users)
                    => users'[Len(users')].total_points = 0]_vars

\* C14: a log_share_event call that ends with an error has stored neither
\* the ShareEvent nor the increments of total_points and shares_count.
ShareAllOrNothing ==
    [][(ret'.op = "log_share_event" /\ ret'.status = 500)
        => (users' = users /\ share_events' = share_events)]_vars

\* C16: update_user_rank and log_share_event given a user_id that is not in
\* the store report not-found, return no rank and change nothing.
NotFoundSurfaced ==
    [][\A user_id \in 1..MaxUsers :
        (/\ user_id \notin UserIds(users)
         /\ ret'.op \in {"update_user_rank", "log_share_event"}
         /\ \/ update_user_rank(user_id)
            \/ \E platform \in Platforms : log_share_event(user_id, platform))
        => /\ ret'.status = 404
           /\ ret'.rank = NULL
           /\ UNCHANGED <<users, share_events, cache>>]_vars

\* C18: when no share request is in flight any more, an update_all_ranks
\* call leaves ranks that depend on total_points, created_at and default_rank
\* only: a user with 0 points holds its default_rank, the users with points
\* hold pairwise distinct ranks, each the user's position in the (points
\* descending, created_at ascending) order of all non-admin users, which is
\* 1 + the number of users ahead of it, plus at most the number of users equal
\* to it on both keys.
StrictlyAhead(u) ==
    {v \in Members :
        \/ users[v].total_points > users[u].total_points
        \/ /\ users[v].total_points = users[u].total_points
           /\ users[v].created_at < users[u].created_at}

TiedWith(u) ==
    {v \in Members \ {u} :
        /\ users[v].total_points = users[u].total_points
        /\ users[v].created_at = users[u].created_at}

AssignWithoutUserReturnsOne ==
    ret.op = "assign_default_rank" => ret.rank = 1

\* C17: assign_default_rank run for a user whose row is gone changes no user
\* row and returns the number of non-admin users in the store.
AssignWithoutUserReturnsCount ==
    /\ [](ret.op = "assign_default_rank" => ret.rank = Cardinality(Members))
    /\ [][ret'.op = "assign_default_rank" => users' = users]_vars

AssignWithoutUserReturnsCountWitness ==
    /\ ret.op = "assign_default_rank"
    /\ ret.rank = 2
    /\ Len(users) = 3

\* C19: the rank calculate_dynamic_rank returns for a non-admin user with
\* points, here to the share that has just awarded them, is 1 + the number
\* of non-admin users with more points, or with the same points and an
\* earlier created_at.
DynamicRankCountsAhead ==
    (/\ ret.op = "log_share_event"
     /\ ret.share
     /\ ret.user_id \in Members)
    => ret.rank = 1 + Cardinality(StrictlyAhead(ret.user_id))

\* C20: the rank update_user_rank stores for a non-admin user with points is
\* the current_rank update_all_ranks assigns to that user in the same store.
IncrementalAgreesWithBulk ==
    [][\A u \in 1..MaxUsers :
        (/\ ret'.op = "update_user_rank"
         /\ u \in Members
         /\ users[u].total_points > 0
         /\ update_user_rank(u))
        => \A s \in SortedOrders(users) :
                users'[u].current_rank =
                    RanksFromOrder(users, s)[u].current_rank]_vars

\* C21: a page get_leaderboard computes on a cache miss holds non-admin users
\* only, in non-increasing order of points and, among equal points, ascending
\* created_at, row i (from 0) having rank (page-1)*limit + i + 1; and over one
\* store and one limit, the pages 1..ceil(N/limit), each computed by a call of
\* its own, list every non-admin user exactly once, with the ranks 1..N.
PageInOrder(rows, page, limit) ==
    /\ \A i \in DOMAIN rows :
            /\ rows[i].user_id \in Members
            /\ rows[i].rank = (page - 1) * limit + i
            /\ rows[i].points = users[rows[i].user_id].total_points
    /\ \A i, j \in DOMAIN rows :
            i < j =>
                \/ rows[i].points > rows[j].points
                \/ /\ rows[i].points = rows[j].points
                   /\ users[rows[i].user_id].created_at
                        <= users[rows[j].user_id].created_at

LeaderboardPagesListEveryone ==
    \A limit \in PageSizes :
        LET N == Cardinality(Members)
            pages == 1..((N + limit - 1) \div limit)
        IN  \A call \in [pages -> SortedOrders(users)] :
                LET rows(p) == LeaderboardPage(users, call[p], p, limit)
                IN  /\ \A p \in pages : PageInOrder(rows(p), p, limit)
                    /\ \A u \in Members :
                            Cardinality({<<p, i>> \in pages \X (1..limit) :
                                /\ i \in DOMAIN rows(p)
                                /\ rows(p)[i].user_id = u}) = 1
                    /\ {rows(p)[i].rank : <<p, i>> \in
                            {<<q, j>> \in pages \X (1..limit) :
                                j \in DOMAIN rows(q)}} = 1..N

\* C22: get_user_rank_info reports points_to_next_rank = 0 for a user whose
\* current_rank is 1, and otherwise the points of the user stored at
\* current_rank - 1, minus the user's own points, plus 1.
PointsToNextRank ==
    (ret.op = "get_user_rank_info" /\ ret.user_id \in UserIds(users))
    => IF users[ret.user_id].current_rank = 1
       THEN ret.status = 200 /\ ret.points = 0
       ELSE /\ ret.status = 200
            /\ \E v \in Members :
                /\ users[v].current_rank =
                        users[ret.user_id].current_rank - 1
                /\ ret.points = users[v].total_points
                        - users[ret.user_id].total_points + 1

\* C23: the new_rank get_rank_changes_after_share previews for a non-admin
\* user and p points is the current_rank stored for that user when the next
\* call is the share that awards it p points.
PreviewEqualsOutcome ==
    [][(/\ ret.op = "get_rank_changes_after_share"
        /\ ret.status = 200
        /\ ret.user_id \in Members
        /\ ret'.op = "log_share_event"
        /\ ret'.share
        /\ ret'.user_id = ret.user_id
        /\ ret'.points = ret.points)
        => users'[ret.user_id].current_rank = ret.rank]_vars

AllStoredRanksAreBulkRanks ==
    (\A a, b \in 1..Len(users) :
        a # b => users[a].created_at # users[b].created_at)
    => /\ \A u \in Members :
            \E s \in SortedOrders(users) :
                users[u].current_rank =
                    RanksFromOrder(users, s)[u].current_rank
       /\ \A a, b \in Members :
            (/\ a # b
             /\ users[a].total_points > 0
             /\ users[b].total_points > 0)
            => users[a].current_rank # users[b].current_rank

\* C25: after shares made one at a time, the non-admin user whose share was
\* the last to award points is stored at a rank update_all_ranks can assign
\* to it in that state (its position in a points-descending, created_at-
\* ascending order of the non-admin users).
LastSharerHoldsBulkRank ==
    (/\ ret.op = "log_share_event"
     /\ ret.share
     /\ ret.user_id \in Members)
    => \E s \in SortedOrders(users) :
            users[ret.user_id].current_rank =
                RanksFromOrder(users, s)[ret.user_id].current_rank

\* user 1 shared first and is still stored at rank 1 after user 2 has
\* overtaken it: two users with points at the same stored rank
LastSharerHoldsBulkRankWitness ==
    /\ ret.op = "log_share_event" /\ ret.share /\ ret.user_id = 2
    /\ Len(users) = 2
    /\ ~users[1].is_admin /\ ~users[2].is_admin
    /\ users[1].total_points > 0
    /\ users[2].total_points > users[1].total_points
    /\ users[1].current_rank = 1
    /\ users[2].current_rank = 1

\* C26: when registrations run side by side, the non-admin users still get
\* pairwise distinct default ranks.
ConcurrentSignupsDistinctRanks ==
    \A a, b \in Members :
        (/\ a # b
         /\ users[a].default_rank # NULL
         /\ users[b].default_rank # NULL)
        => users[a].default_rank # users[b].default_rank

\* C27: every user's total_points is the sum of points_earned over its
\* ShareEvents and its shares_count is their number, so that shares_count <= 4
\* and total_points <= 11, also while share requests interleave.
RECURSIVE PointsOf(_)
PointsOf(evs) ==
    IF evs = {} THEN 0
    ELSE LET e == CHOOSE x \in evs : TRUE
         IN  CopiesIn(e, share_events) * e.points_earned
                + PointsOf(evs \ {e})

RECURSIVE RowsOf(_)
RowsOf(evs) ==
    IF evs = {} THEN 0
    ELSE LET e == CHOOSE x \in evs : TRUE
         IN  CopiesIn(e, share_events) + RowsOf(evs \ {e})

EventsOf(user_id) == {e \in BagToSet(share_events) : e.user_id = user_id}

LedgerConsistency ==
    \A i \in 1..Len(users) :
        /\ users[i].total_points = PointsOf(EventsOf(i))
        /\ users[i].shares_count = RowsOf(EventsOf(i))
        /\ users[i].shares_count <= 4
        /\ users[i].total_points <= 11

\* C28: once no request is in flight, no cache entry holds a point total
\* other than the one stored in the users table, however a get_leaderboard
\* cache miss and a share have interleaved.
NoStaleEntryAfterRace ==
    InFlight = {} =>
        \A k \in DOMAIN cache :
            \A i \in DOMAIN cache[k] :
                cache[k][i].points = users[cache[k][i].user_id].total_points

\* C29: when update_all_ranks commits, it leaves in place the current_rank
\* of every user whose points have changed since the rows were loaded and
\* whose share has finished: the rank stored by that share.
BulkKeepsShareRank ==
    [][\A r \in 1..MaxRequests :
        (requests[r].pc = "bulk" /\ requests'[r].pc = "idle")
        => \A u \in UserIds(requests[r].users) :
            (/\ users[u].total_points # requests[r].users[u].total_points
             /\ \A q \in 1..MaxRequests :
                    requests[q].pc \in {"checked", "committed"}
                        => requests[q].user_id # u)
            => users'[u].current_rank = users[u].current_rank]_vars

\* C30: after registrations and promotions to admin, a non-admin user never
\* holds the default_rank of a non-admin user registered before it.
DefaultRanksDistinctAfterPromotion ==
    \A a, b \in Members :
        a < b => users[b].default_rank # users[a].default_rank

====
